---- MODULE Spec2Model ----
(***************************************************************************)
(* Model of bam_slice/bam_slice.py: interval merging, gap filling of an    *)
(* alignment trace, resolution of a reference interval into a read range,  *)
(* and the batch loop of main.                                             *)
(*                                                                         *)
(* Python lists of two integers are objects: merge_overlap_intervals and   *)
(* extend_interval work on references, so the intervals live in `heap`     *)
(* (object id -> <<start, end>>) and lists of intervals are sequences of   *)
(* object ids.  None is the empty sequence, a present value v is <<v>>.    *)
(***************************************************************************)
EXTENDS Integers, Sequences, FiniteSets, TLC

VARIABLES pc,                  \* position of the modelled caller
          input,               \* values of the list given to merge_overlap_intervals, as passed
          heap,                \* the interval objects of that list, as they are now
          merged,              \* references returned by merge_overlap_intervals(input)
          merged2,             \* references returned by merge_overlap_intervals(merged)
          outcome,             \* "none" | "returned" | "error"
          aligned_pairs,       \* raw trace given to handle_nones
          clean_aligned_pairs, \* (read_positions, ref_positions)
          interval,            \* interval given to get_subsequence_indexes
          subsequence_indexes, \* its result: <<>> for None, else <<start, end>>
          positions,           \* main: the sorted, de-duplicated positions
          padding,             \* main: the --padding option
          FILE_LIMIT,          \* main: open file ceiling of the process
          reads,               \* main: the reads of the alignment file, in file order
          merged_intervals,    \* main: values of the merged intervals
          batches,             \* main: number of batches
          i,                   \* main: batch index of the outer for loop
          cursor,              \* main: number of reads consumed from samfile in this batch
          batch_fastq_files,   \* main: filenames with an open handle in this batch
          fastq,               \* main: filename -> records written, for every file created
          evaluated            \* main: <<read, merged interval>> -> calls of dump_interval_fastq

mergeVars == <<input, heap, merged, merged2, outcome>>
traceVars == <<aligned_pairs, clean_aligned_pairs, interval, subsequence_indexes>>
mainVars == <<positions, padding, FILE_LIMIT, reads, merged_intervals, batches, i,
              cursor, batch_fastq_files, fastq, evaluated>>

vars == <<pc, mergeVars, traceVars, mainVars>>

\* ------------------------------------------------------------------ bounds
MaxLen == 3      \* longest interval list given to merge_overlap_intervals
MaxPos == 3      \* largest coordinate of an interval
MaxTrace == 3    \* longest alignment trace (number of columns)
MaxRead == 1     \* largest read index of a trace
MaxRef == 2      \* largest reference index of a trace
MaxPosition == 2 \* largest position of the positions file
MaxPadding == 1  \* largest --padding
MaxFileLimit == 2 \* largest FILE_LIMIT
MaxReads == 2    \* most reads in the alignment file

SeqsUpTo(S, n) == UNION {[1..k -> S] : k \in 0..n}

Min(a, b) == IF a <= b THEN a ELSE b
Max(a, b) == IF a >= b THEN a ELSE b

\* ------------------------------------------------- merge_overlap_intervals
\* Mutant: the end of the second interval is compared (index slip).
outside_interval_EndIndex(first_interval, second_interval) ==
    second_interval[2] >= first_interval[2]

\* Mutant: touching intervals count as overlapping.
outside_interval_Strict(first_interval, second_interval) ==
    second_interval[1] > first_interval[2]

outside_interval(first_interval, second_interval) ==
    second_interval[1] >= first_interval[2]

\* interval_to_extend[1] = interval[1]; return interval_to_extend
\* (the object is changed in place and the same reference is returned)
extend_interval(h, interval_to_extend, other) ==
    [heap |-> [h EXCEPT ![interval_to_extend] = <<h[interval_to_extend][1], h[other][2]>>],
     ref  |-> interval_to_extend]

\* The for loop of merge_overlap_intervals from its k-th element on;
\* cached = 0 stands for cached_interval is None.
RECURSIVE MergeLoop(_, _, _, _, _)
MergeLoop(h, intervals, k, cached, acc) ==
    IF k > Len(intervals)
    THEN [heap |-> h,
          result |-> IF cached # 0 THEN Append(acc, cached) ELSE acc]
    ELSE LET cur == intervals[k] IN
         IF cached = 0
         THEN MergeLoop(h, intervals, k + 1, cur, acc)
         ELSE IF outside_interval(h[cached], h[cur])
              THEN MergeLoop(h, intervals, k + 1, cur, Append(acc, cached))
              ELSE LET e == extend_interval(h, cached, cur)
                   IN MergeLoop(e.heap, intervals, k + 1, e.ref, acc)

merge_overlap_intervals(h, intervals) == MergeLoop(h, intervals, 1, 0, <<>>)

\* The values of a list of references.
Deref(h, refs) == [k \in 1..Len(refs) |-> h[refs[k]]]

Intervals == (0..MaxPos) \X (0..MaxPos)

\* main has not been started.
MainIdle ==
    /\ positions = <<>>
    /\ padding = 0
    /\ FILE_LIMIT = 1
    /\ reads = <<>>
    /\ merged_intervals = <<>>
    /\ batches = 0
    /\ i = 0
    /\ cursor = 0
    /\ batch_fastq_files = {}
    /\ fastq = <<>>
    /\ evaluated = <<>>

InitMerge ==
    /\ pc = "merge"
    /\ input \in SeqsUpTo(Intervals, MaxLen)
    /\ heap = input
    /\ merged = <<>>
    /\ merged2 = <<>>
    /\ outcome = "none"
    /\ aligned_pairs = <<>>
    /\ clean_aligned_pairs = <<>>
    /\ interval = <<>>
    /\ subsequence_indexes = <<>>
    /\ MainIdle

\* result = merge_overlap_intervals(intervals)
MergeCall ==
    /\ pc = "merge"
    /\ LET m == merge_overlap_intervals(heap, [k \in 1..Len(heap) |-> k]) IN
         /\ heap' = m.heap
         /\ merged' = m.result
    /\ outcome' = "returned"
    /\ pc' = "merged"
    /\ UNCHANGED <<input, merged2, traceVars, mainVars>>

\* again = merge_overlap_intervals(result)
MergeAgainCall ==
    /\ pc = "merged"
    /\ LET m == merge_overlap_intervals(heap, merged) IN
         /\ heap' = m.heap
         /\ merged2' = m.result
    /\ pc' = "remerged"
    /\ UNCHANGED <<input, merged, outcome, traceVars, mainVars>>

\* extended = extend_interval(intervals[a], intervals[b])
ExtendCall ==
    /\ pc = "merge"
    /\ \E a \in 1..Len(heap), b \in 1..Len(heap) :
         LET e == extend_interval(heap, a, b) IN
           /\ heap' = e.heap
           /\ merged' = <<e.ref>>
    /\ outcome' = "returned"
    /\ pc' = "extended"
    /\ UNCHANGED <<input, merged2, traceVars, mainVars>>

NextMerge == MergeCall \/ MergeAgainCall \/ ExtendCall

SpecMerge == InitMerge /\ [][NextMerge]_vars

\* --------------------------------------------------- properties of merging
SortedByStart(X) == \A k \in 1..(Len(X) - 1) : X[k][1] <= X[k + 1][1]
StartBeforeEnd(X) == \A k \in 1..Len(X) : X[k][1] <= X[k][2]
OutOfOrder(X) == \E k \in 1..(Len(X) - 1) : X[k + 1][1] < X[k][1]

\* Integer points of the half-open intervals [start, end) of X.
Points(X) == {p \in 0..(MaxPos + 1) : \E k \in 1..Len(X) : X[k][1] <= p /\ p < X[k][2]}

Range(s) == {s[k] : k \in 1..Len(s)}

\* The values merge_overlap_intervals returned.
MergedValues == Deref(heap, merged)

\* The last input interval swept into the output interval that starts at
\* input interval g.
LastOfGroup(g) ==
    LET later == {h \in Range(merged) : h > g}
    IN IF later = {} THEN Len(input)
       ELSE (CHOOSE h \in later : \A o \in later : h <= o) - 1

\* C1 (as claimed): for an input sorted by start with start <= end in every
\* interval, the merged list covers exactly the integer points the input
\* covers.
C1_CoverageAsClaimed ==
    (pc = "merged" /\ SortedByStart(input) /\ StartBeforeEnd(input))
        => Points(MergedValues) = Points(input)

\* C2: for an input sorted by start, adjacent output intervals (a, b) have
\* b.start >= a.end; an input interval starts an output interval of its own
\* exactly when its start is >= the end of the input interval before it
\* (touching is kept separate), and is otherwise merged into the output
\* interval of its predecessor, which runs from the start of the first to
\* the end of the last interval merged into it.
C2_NonOverlapTouchRule ==
    (pc = "merged" /\ SortedByStart(input)) =>
        /\ \A k \in 1..(Len(merged) - 1) :
               MergedValues[k + 1][1] >= MergedValues[k][2]
        /\ \A k \in 1..Len(input) :
               (k \in Range(merged)) <=> (k = 1 \/ input[k][1] >= input[k - 1][2])
        /\ \A k \in 1..(Len(merged) - 1) : merged[k] < merged[k + 1]
        /\ \A g \in Range(merged) :
               heap[g] = <<input[g][1], input[LastOfGroup(g)][2]>>

C2_Witness ==
    /\ pc = "merged"
    /\ SortedByStart(input)
    /\ Len(input) = 3
    /\ input[2][1] < input[1][2]
    /\ input[3][1] = input[2][2]
    /\ Len(merged) = 2

\* C7: for an input sorted by start with start <= end in every interval,
\* merging the merged list again returns a list equal to the merged list.
C7_Idempotent ==
    [][(pc = "merged" /\ SortedByStart(input) /\ StartBeforeEnd(input))
          => Deref(heap', merged2') = Deref(heap, merged)]_vars

C7_Witness ==
    /\ pc = "remerged"
    /\ SortedByStart(input) /\ StartBeforeEnd(input)
    /\ Len(input) = 3
    /\ Len(merged) = 2
    /\ Deref(heap, merged2) = Deref(heap, merged)

\* C8 (as claimed): an input holding an interval whose start is less than
\* the start of the interval before it ends in an error outcome.
C8_FailsFastAsClaimed ==
    (pc = "merged" /\ OutOfOrder(input)) => outcome = "error"

\* C8 (amended): such an input raises nothing; a list is returned, and an
\* out-of-order interval whose predecessor has start <= end is merged into
\* the interval being accumulated instead of starting an output interval.
C8_ReturnsSilently ==
    (pc = "merged" /\ OutOfOrder(input)) =>
        /\ outcome = "returned"
        /\ \A k \in 1..(Len(input) - 1) :
               (input[k + 1][1] < input[k][1] /\ input[k][1] <= input[k][2])
                   => (k + 1) \notin Range(merged)

C8_Witness ==
    /\ pc = "merged"
    /\ Len(input) = 2
    /\ input[2][1] < input[1][1]
    /\ input[1][1] <= input[1][2]
    /\ outcome = "returned"
    /\ merged = <<1>>

\* C11 (as claimed): after merge_overlap_intervals or extend_interval has
\* returned, every interval of the caller's list holds the start and end it
\* held before the call.
C11_InputUnchangedAsClaimed ==
    pc \in {"merged", "extended"} => heap = input

\* ------------------------------------------------------------ handle_nones
\* Mutant: the last seen positions are never updated.
RECURSIVE HandleLoop_StalePrevious(_, _, _, _, _, _)
HandleLoop_StalePrevious(pairs, k, previous_ref_pos, previous_read_pos, handled_ref_positions, handled_read_positions) ==
    IF k > Len(pairs)
    THEN <<handled_read_positions, handled_ref_positions>>
    ELSE LET read_pos == pairs[k][1]
             ref_pos  == pairs[k][2]
         IN HandleLoop_StalePrevious(pairs, k + 1, previous_ref_pos, previous_read_pos,
                Append(handled_ref_positions,
                       IF ref_pos = <<>> THEN previous_ref_pos ELSE ref_pos[1]),
                Append(handled_read_positions,
                       IF read_pos = <<>> THEN previous_read_pos ELSE read_pos[1]))

\* The for loop of handle_nones from the k-th pair on.
RECURSIVE HandleLoop(_, _, _, _, _, _)
HandleLoop(pairs, k, previous_ref_pos, previous_read_pos, handled_ref_positions, handled_read_positions) ==
    IF k > Len(pairs)
    THEN <<handled_read_positions, handled_ref_positions>>
    ELSE LET read_pos == pairs[k][1]
             ref_pos  == pairs[k][2]
         IN HandleLoop(pairs, k + 1,
                IF ref_pos = <<>> THEN previous_ref_pos ELSE ref_pos[1],
                IF read_pos = <<>> THEN previous_read_pos ELSE read_pos[1],
                Append(handled_ref_positions,
                       IF ref_pos = <<>> THEN previous_ref_pos ELSE ref_pos[1]),
                Append(handled_read_positions,
                       IF read_pos = <<>> THEN previous_read_pos ELSE read_pos[1]))

handle_nones(pairs) == HandleLoop(pairs, 1, -1, -1, <<>>, <<>>)

\* ------------------------------------------------- get_subsequence_indexes
\* bisect.bisect_left(a, x, lo, hi) of the standard library, on 0-based
\* indexes: a[mid] of the code is a[mid + 1] here.
RECURSIVE bisect_left(_, _, _, _)
bisect_left(a, x, lo, hi) ==
    IF lo < hi
    THEN LET mid == (lo + hi) \div 2
         IN IF a[mid + 1] < x THEN bisect_left(a, x, mid + 1, hi)
                              ELSE bisect_left(a, x, lo, mid)
    ELSE lo

\* bisect.bisect_right(a, x, lo, hi) of the standard library.
RECURSIVE bisect_right(_, _, _, _)
bisect_right(a, x, lo, hi) ==
    IF lo < hi
    THEN LET mid == (lo + hi) \div 2
         IN IF x < a[mid + 1] THEN bisect_right(a, x, lo, mid)
                              ELSE bisect_right(a, x, mid + 1, hi)
    ELSE lo

\* Mutant: the end is located by bisect_left as well.
ref_interval_indexes_LeftLeft(ivl, ref) ==
    <<bisect_left(ref, ivl[1], 0, Len(ref)), bisect_left(ref, ivl[2], 0, Len(ref))>>

ref_interval_indexes(ivl, ref) ==
    <<bisect_left(ref, ivl[1], 0, Len(ref)), bisect_right(ref, ivl[2], 0, Len(ref))>>

\* The Python slice s[start:stop] for start, stop >= 0.
Slice(s, start, stop) ==
    LET lo == Min(start, Len(s))
        hi == Min(stop, Len(s))
    IN IF lo >= hi THEN <<>> ELSE SubSeq(s, lo + 1, hi)

\* Mutant: a negative start index is returned as it is.
get_subsequence_indexes_NoClamp(ivl, pairs) ==
    LET read_positions == pairs[1]
        ref_positions  == pairs[2]
        idx            == ref_interval_indexes(ivl, ref_positions)
        read_indexes   == Slice(read_positions, idx[1], idx[2])
    IN IF read_indexes = <<>>
       THEN <<>>
       ELSE <<read_indexes[1], read_indexes[Len(read_indexes)]>>

get_subsequence_indexes(ivl, pairs) ==
    LET read_positions == pairs[1]
        ref_positions  == pairs[2]
        idx            == ref_interval_indexes(ivl, ref_positions)
        read_indexes   == Slice(read_positions, idx[1], idx[2])
    IN IF read_indexes = <<>>
       THEN <<>>
       ELSE LET read_start_index == read_indexes[1]
                read_end_index   == read_indexes[Len(read_indexes)]
            IN <<IF read_start_index < 0 THEN 0 ELSE read_start_index,
                 read_end_index>>

Optional(S) == {<<>>} \cup {<<v>> : v \in S}

\* Columns of a raw trace as read.get_aligned_pairs() yields them.
RawPairs == Optional(0..MaxRead) \X Optional(0..MaxRef)

\* Intervals asked of a trace.
IntervalArgs == (0..(MaxRef + 1)) \X (0..(MaxRef + 1))

\* Gap-filled traces as a caller may pass them: two lists of one length.
CleanPairs ==
    UNION {[1..n -> (-1)..MaxRead] \X [1..n -> (-1)..MaxRef] : n \in 0..MaxTrace}

InitNones ==
    /\ pc = "nones"
    /\ aligned_pairs \in SeqsUpTo(RawPairs, MaxTrace)
    /\ clean_aligned_pairs = <<>>
    /\ interval = <<>>
    /\ subsequence_indexes = <<>>
    /\ input = <<>>
    /\ heap = <<>>
    /\ merged = <<>>
    /\ merged2 = <<>>
    /\ outcome = "none"
    /\ MainIdle

InitSubseq ==
    /\ pc = "subseq"
    /\ aligned_pairs = <<>>
    /\ clean_aligned_pairs \in CleanPairs
    /\ interval = <<>>
    /\ subsequence_indexes = <<>>
    /\ input = <<>>
    /\ heap = <<>>
    /\ merged = <<>>
    /\ merged2 = <<>>
    /\ outcome = "none"
    /\ MainIdle

\* clean_aligned_pairs = handle_nones(aligned_pairs)
HandleNonesCall ==
    /\ pc = "nones"
    /\ clean_aligned_pairs' = handle_nones(aligned_pairs)
    /\ pc' = "subseq"
    /\ UNCHANGED <<mergeVars, mainVars, aligned_pairs, interval, subsequence_indexes>>

\* subsequence_indexes = get_subsequence_indexes(interval, clean_aligned_pairs)
GetSubsequenceCall ==
    /\ pc = "subseq"
    /\ \E ivl \in IntervalArgs :
         /\ interval' = ivl
         /\ subsequence_indexes' = get_subsequence_indexes(ivl, clean_aligned_pairs)
    /\ pc' = "resolved"
    /\ UNCHANGED <<mergeVars, mainVars, aligned_pairs, clean_aligned_pairs>>

NextNones == HandleNonesCall \/ GetSubsequenceCall

NextSubseq == GetSubsequenceCall

SpecNones == InitNones /\ [][NextNones]_vars

SpecSubseq == InitSubseq /\ [][NextSubseq]_vars

\* ------------------------------------------- properties of the trace steps
NonDecreasing(s) == \A k \in 1..(Len(s) - 1) : s[k] <= s[k + 1]

read_positions == clean_aligned_pairs[1]
ref_positions == clean_aligned_pairs[2]

\* Indexes of the reference positions inside the closed interval.
InRange == {k \in 1..Len(ref_positions) :
               interval[1] <= ref_positions[k] /\ ref_positions[k] <= interval[2]}

\* C3: for a non-decreasing ref_positions of the length of read_positions,
\* get_subsequence_indexes returns None exactly when no reference position
\* r has s <= r <= e.
C3_NoneIffNoOverlap ==
    (pc = "resolved" /\ NonDecreasing(ref_positions)
                     /\ Len(read_positions) = Len(ref_positions))
        => ((subsequence_indexes = <<>>) <=> (InRange = {}))

C3_Witness ==
    /\ pc = "resolved"
    /\ NonDecreasing(ref_positions)
    /\ Len(ref_positions) = 3
    /\ ref_positions[1] # ref_positions[3]
    /\ interval[1] <= interval[2]
    /\ interval[1] > ref_positions[3]
    /\ subsequence_indexes = <<>>

\* C4: for a non-decreasing ref_positions of the length of read_positions
\* with an entry in [s, e], the result is (max(0, read_positions[first]),
\* read_positions[last]) with first the least index whose reference position
\* is >= s and last the greatest index whose reference position is <= e.
C4_AgreesWithLinearScan ==
    (pc = "resolved" /\ NonDecreasing(ref_positions)
                     /\ Len(read_positions) = Len(ref_positions)
                     /\ InRange # {})
        => LET lower == {k \in 1..Len(ref_positions) : ref_positions[k] >= interval[1]}
               upper == {k \in 1..Len(ref_positions) : ref_positions[k] <= interval[2]}
               first == CHOOSE k \in lower : \A o \in lower : k <= o
               last  == CHOOSE k \in upper : \A o \in upper : k >= o
           IN subsequence_indexes = <<Max(0, read_positions[first]), read_positions[last]>>

C4_Witness ==
    /\ pc = "resolved"
    /\ NonDecreasing(ref_positions)
    /\ Len(ref_positions) = 3
    /\ ref_positions[2] = ref_positions[3]
    /\ ref_positions[3] = interval[2]
    /\ ref_positions[1] = interval[1]
    /\ read_positions = <<-1, 0, 1>>
    /\ subsequence_indexes = <<0, 1>>

\* The value handle_nones must put in column k of component c (1 = read,
\* 2 = reference): the component of pair k when present, else the nearest
\* earlier present one, else -1.
Filled(k, c) ==
    LET present == {j \in 1..k : aligned_pairs[j][c] # <<>>}
    IN IF present = {} THEN -1
       ELSE aligned_pairs[CHOOSE j \in present : \A o \in present : j >= o][c][1]

\* C5: handle_nones returns two sequences of the length of the trace, every
\* entry an integer: the component of its pair when present, else the
\* nearest preceding present value of that component, else -1.
C5_GapFillTotal ==
    pc = "subseq" =>
        /\ Len(read_positions) = Len(aligned_pairs)
        /\ Len(ref_positions) = Len(aligned_pairs)
        /\ \A k \in 1..Len(aligned_pairs) :
               /\ read_positions[k] \in (-1)..MaxRead
               /\ ref_positions[k] \in (-1)..MaxRef
               /\ read_positions[k] = Filled(k, 1)
               /\ ref_positions[k] = Filled(k, 2)

C5_Witness ==
    /\ pc = "subseq"
    /\ Len(aligned_pairs) = 3
    /\ aligned_pairs[1] = <<<<>>, <<>>>>
    /\ aligned_pairs[2][1] # <<>> /\ aligned_pairs[2][2] = <<>>
    /\ aligned_pairs[3][1] = <<>> /\ aligned_pairs[3][2] # <<>>
    /\ read_positions[1] = -1 /\ ref_positions[2] = -1
    /\ read_positions[3] = aligned_pairs[2][1][1]

\* The present values of component c, in trace order.
RECURSIVE PresentValues(_, _)
PresentValues(pairs, c) ==
    IF pairs = <<>> THEN <<>>
    ELSE (IF Head(pairs)[c] = <<>> THEN <<>> ELSE Head(pairs)[c])
             \o PresentValues(Tail(pairs), c)

ValidTrace(pairs) ==
    \A c \in 1..2 :
        /\ NonDecreasing(PresentValues(pairs, c))
        /\ \A k \in 1..Len(PresentValues(pairs, c)) : PresentValues(pairs, c)[k] >= 0

SentinelOnlyLeads(s) == \A k \in 1..(Len(s) - 1) : s[k + 1] = -1 => s[k] = -1

\* C6: when the present read components and the present reference
\* components of the trace are non-negative and non-decreasing, both
\* sequences handle_nones returns are non-decreasing and -1 occurs only in
\* a leading run of each.
C6_GapFillMonotone ==
    (pc = "subseq" /\ ValidTrace(aligned_pairs)) =>
        /\ NonDecreasing(read_positions) /\ SentinelOnlyLeads(read_positions)
        /\ NonDecreasing(ref_positions) /\ SentinelOnlyLeads(ref_positions)

C6_Witness ==
    /\ pc = "subseq"
    /\ ValidTrace(aligned_pairs)
    /\ Len(aligned_pairs) = 3
    /\ ref_positions = <<-1, 0, 0>>
    /\ read_positions = <<0, 0, 1>>
    /\ aligned_pairs[2][1] = <<>>
    /\ aligned_pairs[3][2] = <<>>

\* -------------------------------------------------------------------- main
\* sorted(...) of a set of positions.
RECURSIVE sorted(_)
sorted(S) ==
    IF S = {} THEN <<>>
    ELSE LET least == CHOOSE x \in S : \A y \in S : x <= y
         IN <<least>> \o sorted(S \ {least})

\* The padded interval of a position.
PaddedInterval(pos, pad) == <<IF pos - pad >= 0 THEN pos - pad ELSE 0, pos + pad>>

\* Mutant: the number of batches is rounded down.
BatchCount_Floor(n, limit) == n \div limit

\* math.ceil(len(merged_intervals) / FILE_LIMIT)
BatchCount(n, limit) == (n + limit - 1) \div limit

\* The filter of the read loop: True when the read is skipped.
Skipped(read) == read.is_unmapped \/ read.is_secondary \/ read.is_supplementary

\* A gapless alignment of a two-base read that starts at reference r0.
BlockTrace(r0) == << <<<<0>>, <<r0>>>>, <<<<1>>, <<r0 + 1>>>> >>

ReadFlags ==
    { [is_unmapped |-> FALSE, is_secondary |-> FALSE, is_supplementary |-> FALSE],
      [is_unmapped |-> TRUE,  is_secondary |-> FALSE, is_supplementary |-> FALSE],
      [is_unmapped |-> FALSE, is_secondary |-> TRUE,  is_supplementary |-> FALSE],
      [is_unmapped |-> FALSE, is_secondary |-> FALSE, is_supplementary |-> TRUE] }

Reads ==
    { [is_unmapped |-> f.is_unmapped, is_secondary |-> f.is_secondary,
       is_supplementary |-> f.is_supplementary, aligned_pairs |-> BlockTrace(r0)]
        : f \in ReadFlags, r0 \in 0..MaxRef }

\* The for loop over batch_merged_intervals for one read, from the k-th
\* interval of the batch on; m is that interval's index in merged_intervals.
\* A file is created (and truncated: mode 'w') when its name has no handle in
\* batch_fastq_files; a record is appended when the interval is in the read.
RECURSIVE IntervalLoop(_, _, _, _, _, _, _)
IntervalLoop(read, clean, m, batch_end, open, files, ev) ==
    IF m > batch_end
    THEN [open |-> open, files |-> files, ev |-> ev]
    ELSE LET filename == merged_intervals[m]
             created  == IF filename \in open THEN files
                         ELSE (filename :> <<>>) @@ files
             indexes  == get_subsequence_indexes(merged_intervals[m], clean)
             written  == IF indexes # <<>>
                         THEN [created EXCEPT ![filename] = Append(@, <<read, indexes>>)]
                         ELSE created
         IN IntervalLoop(read, clean, m + 1, batch_end, open \cup {filename}, written,
                         [ev EXCEPT ![<<read, m>>] = @ + 1])

InitMain ==
    /\ pc = "main"
    /\ positions \in {sorted(S) : S \in SUBSET (0..MaxPosition)}
    /\ padding \in 0..MaxPadding
    /\ FILE_LIMIT \in 1..MaxFileLimit
    /\ reads \in SeqsUpTo(Reads, MaxReads)
    /\ merged_intervals = <<>>
    /\ batches = 0
    /\ i = 0
    /\ cursor = 0
    /\ batch_fastq_files = {}
    /\ fastq = <<>>
    /\ evaluated = <<>>
    /\ input = <<>>
    /\ heap = <<>>
    /\ merged = <<>>
    /\ merged2 = <<>>
    /\ outcome = "none"
    /\ aligned_pairs = <<>>
    /\ clean_aligned_pairs = <<>>
    /\ interval = <<>>
    /\ subsequence_indexes = <<>>

\* Lines 334-343: pad the positions, merge the intervals, count the batches.
MainSetup ==
    /\ pc = "main"
    /\ LET intervals == [k \in 1..Len(positions) |-> PaddedInterval(positions[k], padding)]
           m == merge_overlap_intervals(intervals, [k \in 1..Len(intervals) |-> k])
           result == Deref(m.heap, m.result)
       IN /\ merged_intervals' = result
          /\ batches' = BatchCount(Len(result), FILE_LIMIT)
          /\ evaluated' = [p \in (1..Len(reads)) \X (1..Len(result)) |-> 0]
    /\ i' = 0
    /\ pc' = "for_batch"
    /\ UNCHANGED <<mergeVars, traceVars, positions, padding, FILE_LIMIT, reads,
                   cursor, batch_fastq_files, fastq>>

\* Lines 346-351: the next batch starts and the alignment file is opened.
BatchStart ==
    /\ pc = "for_batch"
    /\ i < batches
    /\ batch_fastq_files' = {}
    /\ cursor' = 0
    /\ pc' = "for_read"
    /\ UNCHANGED <<mergeVars, traceVars, positions, padding, FILE_LIMIT, reads,
                   merged_intervals, batches, i, fastq, evaluated>>

\* Lines 353-358: the next read is unmapped, secondary or supplementary.
ReadSkip ==
    /\ pc = "for_read"
    /\ cursor < Len(reads)
    /\ Skipped(reads[cursor + 1])
    /\ cursor' = cursor + 1
    /\ UNCHANGED <<pc, mergeVars, traceVars, positions, padding, FILE_LIMIT, reads,
                   merged_intervals, batches, i, batch_fastq_files, fastq, evaluated>>

\* Lines 353-377: the next read passes the filter and is dumped for every
\* interval of the batch.
ReadDump ==
    /\ pc = "for_read"
    /\ cursor < Len(reads)
    /\ ~Skipped(reads[cursor + 1])
    /\ LET clean == handle_nones(reads[cursor + 1].aligned_pairs)
           done == IntervalLoop(cursor + 1, clean, i * FILE_LIMIT + 1,
                                Min((i + 1) * FILE_LIMIT, Len(merged_intervals)),
                                batch_fastq_files, fastq, evaluated)
       IN /\ batch_fastq_files' = done.open
          /\ fastq' = done.files
          /\ evaluated' = done.ev
    /\ cursor' = cursor + 1
    /\ UNCHANGED <<pc, mergeVars, traceVars, positions, padding, FILE_LIMIT, reads,
                   merged_intervals, batches, i>>

\* Lines 379-381: the reads are exhausted, the files of the batch are closed.
BatchEnd ==
    /\ pc = "for_read"
    /\ cursor = Len(reads)
    /\ batch_fastq_files' = {}
    /\ i' = i + 1
    /\ pc' = "for_batch"
    /\ UNCHANGED <<mergeVars, traceVars, positions, padding, FILE_LIMIT, reads,
                   merged_intervals, batches, cursor, fastq, evaluated>>

\* The outer for loop is exhausted and main returns.
MainReturn ==
    /\ pc = "for_batch"
    /\ i >= batches
    /\ pc' = "done"
    /\ UNCHANGED <<mergeVars, traceVars, mainVars>>

NextMain == MainSetup \/ BatchStart \/ ReadSkip \/ ReadDump \/ BatchEnd \/ MainReturn

SpecMain == InitMain /\ [][NextMain]_vars

\* ----------------------------------------------------- properties of main
\* C9 (as claimed): when main has returned, every merged interval has an
\* output file that was created, whatever the reads were.
C9_EveryIntervalHasFileAsClaimed ==
    pc = "done" => \A m \in 1..Len(merged_intervals) :
                       merged_intervals[m] \in DOMAIN fastq

\* Records of read r in the file of merged interval m.
RecordsOf(r, m) ==
    IF merged_intervals[m] \in DOMAIN fastq
    THEN {k \in 1..Len(fastq[merged_intervals[m]]) : fastq[merged_intervals[m]][k][1] = r}
    ELSE {}

\* C10: when main has returned, every pair of a mapped, primary,
\* non-supplementary read and a merged interval has been evaluated once, and
\* the interval's file holds one record of the read (carrying the resolved
\* range) when get_subsequence_indexes returns a range and none when it
\* returns None; a skipped read is never evaluated and has no record.
C10_EachPairOnce ==
    pc = "done" =>
        \A r \in 1..Len(reads) : \A m \in 1..Len(merged_intervals) :
            LET indexes == get_subsequence_indexes(merged_intervals[m],
                               handle_nones(reads[r].aligned_pairs))
                file == fastq[merged_intervals[m]]
            IN IF Skipped(reads[r])
               THEN evaluated[<<r, m>>] = 0 /\ RecordsOf(r, m) = {}
               ELSE /\ evaluated[<<r, m>>] = 1
                    /\ Cardinality(RecordsOf(r, m)) = (IF indexes = <<>> THEN 0 ELSE 1)
                    /\ \A k \in RecordsOf(r, m) : file[k] = <<r, indexes>>

C10_Witness ==
    /\ pc = "done"
    /\ batches = 2
    /\ Len(merged_intervals) = 3
    /\ Len(reads) = 2
    /\ Skipped(reads[1]) /\ ~Skipped(reads[2])
    /\ RecordsOf(2, 1) = {}
    /\ RecordsOf(2, 3) # {}
    /\ evaluated[<<2, 3>>] = 1

\* C12 (as claimed): on a trace gap-filled from a raw trace whose present
\* components are non-negative and non-decreasing, and an interval with
\* s <= e, a returned pair is a well-formed range 0 <= start <= end.
C12_WellFormedRangeAsClaimed ==
    (pc = "resolved" /\ ValidTrace(aligned_pairs) /\ interval[1] <= interval[2]
                     /\ subsequence_indexes # <<>>)
        => (0 <= subsequence_indexes[1] /\ subsequence_indexes[1] <= subsequence_indexes[2])

====
